---- MODULE Spec2Model ----
(***************************************************************************)
(* A model of modify-pdf: PDFModifier of modify_pdf_multiprocess.py (the   *)
(* worker _modify_and_save, the four page transforms, the orchestrator     *)
(* run_in_separate_process and the direct entry modify_pdf).               *)
(*                                                                         *)
(* Lengths are exact rationals <<n, d>> in PostScript points.  A page is   *)
(* its media box and the list of content layers drawn on it; merging a     *)
(* page onto another under "scale, then translate" composes that affine    *)
(* map with the map of every layer of the merged page.                     *)
(***************************************************************************)
EXTENDS Integers, Sequences, FiniteSets, TLC

\* ------------------------------------------------------------------ bounds
\* Longest source document explored, in pages.
MaxPages == 2
\* Longest action chain explored.
MaxChain == 2

\* --------------------------------------------------------------- rationals
Abs(x) == IF x < 0 THEN -x ELSE x

RECURSIVE GCD(_, _)
GCD(a, b) == IF b = 0 THEN a ELSE GCD(b, a % b)

\* The reduced fraction n/d (d # 0), with a positive denominator.
Rat(n, d) ==
    LET g == GCD(Abs(n), Abs(d))
        s == IF d < 0 THEN -1 ELSE 1
    IN  <<(s * n) \div g, (s * d) \div g>>

R(n) == <<n, 1>>

\* Products and sums cancel common factors first, so that the intermediate
\* integers stay small.
RMul(a, b) ==
    LET g1 == GCD(Abs(a[1]), b[2])
        g2 == GCD(Abs(b[1]), a[2])
    IN  Rat((a[1] \div g1) * (b[1] \div g2), (a[2] \div g2) * (b[2] \div g1))
RDiv(a, b) ==
    IF b[1] < 0 THEN RMul(a, <<-b[2], -b[1]>>) ELSE RMul(a, <<b[2], b[1]>>)
RAdd(a, b) ==
    LET g == GCD(a[2], b[2])
    IN  Rat(a[1] * (b[2] \div g) + b[1] * (a[2] \div g), (a[2] \div g) * b[2])
RSub(a, b) == RAdd(a, <<-b[1], b[2]>>)
RLess(a, b) ==
    LET g1 == GCD(Abs(a[1]), Abs(b[1]))
        g2 == GCD(a[2], b[2])
        n1 == IF g1 = 0 THEN 1 ELSE g1
    IN  (a[1] \div n1) * (b[2] \div g2) < (b[1] \div n1) * (a[2] \div g2)
RLeq(a, b) == ~RLess(b, a)
\* Python's min(a, b): the first argument unless the second is smaller.
RMin(a, b) == IF RLess(b, a) THEN b ELSE a

\* ------------------------------------------------------ paper-size registry
BaseNames ==
    {"A0", "A1", "A2", "A3", "A4", "A5", "A6", "Letter", "Legal", "Tabloid",
     "B0", "B1", "B2", "B3", "B4", "B5",
     "C0", "C1", "C2", "C3", "C4", "C5", "C6"}

\* mm / 25.4 * 72, as a fraction.
Mm(x) == Rat(x * 720, 254)

BASE_PAPER_SIZES ==
    [n \in BaseNames |->
        CASE n = "A0" -> <<R(2384), R(3370)>>
          [] n = "A1" -> <<R(1684), R(2384)>>
          [] n = "A2" -> <<R(1191), R(1684)>>
          [] n = "A3" -> <<R(842), R(1191)>>
          [] n = "A4" -> <<R(595), R(842)>>
          [] n = "A5" -> <<R(420), R(595)>>
          [] n = "A6" -> <<R(298), R(420)>>
          [] n = "Letter" -> <<R(612), R(792)>>
          [] n = "Legal" -> <<R(612), R(1008)>>
          [] n = "Tabloid" -> <<R(792), R(1224)>>
          [] n = "B0" -> <<Mm(1000), Mm(1414)>>
          [] n = "B1" -> <<Mm(707), Mm(1000)>>
          [] n = "B2" -> <<Mm(500), Mm(707)>>
          [] n = "B3" -> <<Mm(353), Mm(500)>>
          [] n = "B4" -> <<Mm(250), Mm(353)>>
          [] n = "B5" -> <<Mm(176), Mm(250)>>
          [] n = "C0" -> <<Mm(917), Mm(1297)>>
          [] n = "C1" -> <<Mm(648), Mm(917)>>
          [] n = "C2" -> <<Mm(458), Mm(648)>>
          [] n = "C3" -> <<Mm(324), Mm(458)>>
          [] n = "C4" -> <<Mm(229), Mm(324)>>
          [] n = "C5" -> <<Mm(162), Mm(229)>>
          [] n = "C6" -> <<Mm(114), Mm(162)>>]

LandscapeName(n) == n \o "_Landscape"

\* A registry whose <name>_Landscape entries repeat the base dimensions
\* unswapped: PAPER_SIZES[f"{name}_Landscape"] = (width, height).
PaperSizesUnswapped ==
    LET land == {LandscapeName(n) : n \in BaseNames}
    IN  [name \in BaseNames \cup land |->
            IF name \in land
            THEN BASE_PAPER_SIZES[CHOOSE n \in BaseNames : LandscapeName(n) = name]
            ELSE BASE_PAPER_SIZES[name]]

\* The deep copy of the base table, then one <name>_Landscape entry per base
\* entry, assigned after the copy (so it would replace a base entry of the
\* same name).
PAPER_SIZES ==
    LET land == {LandscapeName(n) : n \in BaseNames}
    IN  [name \in BaseNames \cup land |->
            IF name \in land
            THEN LET b == CHOOSE n \in BaseNames : LandscapeName(n) = name
                 IN  <<BASE_PAPER_SIZES[b][2], BASE_PAPER_SIZES[b][1]>>
            ELSE BASE_PAPER_SIZES[name]]

\* A lookup in the base table only: no <name>_Landscape entry is found.
PaperSizesGetBaseOnly(name) ==
    IF name \in BaseNames
    THEN [found |-> TRUE, dims |-> BASE_PAPER_SIZES[name]]
    ELSE [found |-> FALSE, dims |-> <<R(0), R(0)>>]

\* PAPER_SIZES.get(name): found is FALSE for None.
PaperSizesGet(name) ==
    IF name \in DOMAIN PAPER_SIZES
    THEN [found |-> TRUE, dims |-> PAPER_SIZES[name]]
    ELSE [found |-> FALSE, dims |-> <<R(0), R(0)>>]

\* ------------------------------------------------------------------- pages
\* One layer of content: page `page` (0-based) of document `doc`, drawn under
\* x -> scale * x + dx.
Layer(doc, page, scale, dx) ==
    [doc |-> doc, page |-> page, scale |-> scale, dx |-> dx]

\* Page i (0-based) of document `doc` as the reader hands it out.
FilePage(doc, i, w, h) ==
    [src |-> i, w |-> w, h |-> h, layers |-> <<Layer(doc, i, R(1), R(0))>>]

\* writer.add_blank_page(width, height), for the destination of source page
\* `src`.
BlankPage(src, w, h) == [src |-> src, w |-> w, h |-> h, layers |-> <<>>]

\* Transformation().scale(s).translate(dx, 0) applied to the layers of a page.
Transformed(layers, s, dx) ==
    [j \in 1..Len(layers) |->
        Layer(layers[j].doc, layers[j].page,
              RMul(s, layers[j].scale), RAdd(RMul(s, layers[j].dx), dx))]

\* dest.merge_transformed_page(page, Transformation().scale(s).translate(dx, 0))
MergeTransformedPage(dest, page, s, dx) ==
    [dest EXCEPT !.layers = dest.layers \o Transformed(page.layers, s, dx)]

\* dest.merge_page(page): the page's content, unscaled, at the origin.
MergePage(dest, page) == [dest EXCEPT !.layers = dest.layers \o page.layers]

\* ------------------------------------------------- files and exceptions
\* None, and an optional value, as a sequence of length 0 or 1.
None == <<>>
Some(v) == <<v>>
IsNone(o) == Len(o) = 0
Val(o) == o[1]

\* What a path holds.  known: the run has looked at the path; exists:
\* os.path.exists; readable: PdfReader opens it; pages: its pages.
File(exists, readable, pages) ==
    [known |-> TRUE, exists |-> exists, readable |-> readable, pages |-> pages]
UnknownFile == [known |-> FALSE, exists |-> FALSE, readable |-> FALSE, pages |-> <<>>]

NoExc == [type |-> "none", msg |-> ""]
Exc(type, msg) == [type |-> type, msg |-> msg]

\* The result of a call: a returned page list, or a raised exception.
Return(pages) == [raised |-> FALSE, exc |-> NoExc, pages |-> pages]
Raise(type, msg) == [raised |-> TRUE, exc |-> Exc(type, msg), pages |-> <<>>]

\* The text of the FileNotFoundError of _verify_paths.
NotFoundText(path) == "Error: The file '" \o path \o "' was not found."

\* PdfReader(path) alone, without _verify_paths before it: a missing file is
\* one more document that cannot be read.
OpenErrorUnverified(path, file) ==
    IF IsNone(path) THEN Exc("TypeError", "path should be string, not NoneType")
    ELSE IF ~file.exists \/ ~file.readable
    THEN Exc("Exception", "could not read the document")
    ELSE NoExc

\* _verify_paths(path), then PdfReader(path): the exception raised, or NoExc.
\* os.path.exists(None) raises TypeError.
OpenError(path, file) ==
    IF IsNone(path) THEN Exc("TypeError", "path should be string, not NoneType")
    ELSE IF ~file.exists THEN Exc("FileNotFoundError", NotFoundText(Val(path)))
    ELSE IF ~file.readable THEN Exc("Exception", "could not read the document")
    ELSE NoExc

\* -------------------------------------------------------------- transforms
\* A duplicate that appends the whole list twice instead of each page twice.
DuplicateAppendsListTwice(pages_to_process) ==
    Return(pages_to_process \o pages_to_process)

\* A loop that puts each page's two copies in front of the pages before it.
RECURSIVE PrependEachTwice(_)
PrependEachTwice(pages) ==
    IF Len(pages) = 0 THEN <<>>
    ELSE PrependEachTwice(Tail(pages)) \o <<Head(pages), Head(pages)>>

\* The loop of _duplicate_pages: new_pages.append(page) twice for each page,
\* in list order.
RECURSIVE AppendEachTwice(_)
AppendEachTwice(pages) ==
    IF Len(pages) = 0 THEN <<>>
    ELSE <<Head(pages), Head(pages)>> \o AppendEachTwice(Tail(pages))

\* _duplicate_pages.
DuplicatePages(pages_to_process) ==
    IF Len(pages_to_process) = 0 THEN Return(<<>>)
    ELSE Return(AppendEachTwice(pages_to_process))

\* A destination page widened by the proportion of the source width:
\* ideal_width = page_width * (1 + margin_proportion).
NoteMarginPageAddsShare(page, margin_proportion, hasBackground, background_page) ==
    LET ideal_width == RMul(page.w, RAdd(R(1), margin_proportion))
        dest_page == MergePage(BlankPage(page.src, ideal_width, page.h), page)
    IN  IF hasBackground
        THEN MergeTransformedPage(dest_page, background_page,
                                  RDiv(page.h, background_page.h), page.w)
        ELSE dest_page

\* One destination page of _add_note_margin.
NoteMarginPage(page, margin_proportion, hasBackground, background_page) ==
    LET ideal_width == RDiv(page.w, RSub(R(1), margin_proportion))
        ideal_height == page.h
        dest_page == MergePage(BlankPage(page.src, ideal_width, ideal_height), page)
    IN  IF hasBackground
        THEN MergeTransformedPage(dest_page, background_page,
                                  RDiv(ideal_height, background_page.h), page.w)
        ELSE dest_page

\* An _add_note_margin whose check is only `margin_proportion < 1`.
AddNoteMarginNoLowerBound(self, pages_to_process, background) ==
    IF ~RLess(self.margin_proportion, R(1))
    THEN Raise("ValueError", "'margin_proportion' must be between 0 and 1.")
    ELSE IF Len(pages_to_process) = 0 THEN Return(<<>>)
    ELSE IF ~IsNone(self.background_pdf_path)
            /\ OpenError(self.background_pdf_path, background) # NoExc
    THEN [raised |-> TRUE, pages |-> <<>>,
          exc |-> OpenError(self.background_pdf_path, background)]
    ELSE IF ~IsNone(self.background_pdf_path) /\ Len(background.pages) = 0
    THEN Raise("ValueError", "The background file has no pages.")
    ELSE Return([j \in 1..Len(pages_to_process) |->
                    NoteMarginPage(pages_to_process[j], self.margin_proportion,
                                   ~IsNone(self.background_pdf_path),
                                   IF IsNone(self.background_pdf_path)
                                   THEN BlankPage(0, R(1), R(1))
                                   ELSE background.pages[1])])

\* _add_note_margin; `background` is what background_pdf_path holds.
AddNoteMargin(self, pages_to_process, background) ==
    IF ~(RLeq(R(0), self.margin_proportion) /\ RLess(self.margin_proportion, R(1)))
    THEN Raise("ValueError", "'margin_proportion' must be between 0 and 1.")
    ELSE IF Len(pages_to_process) = 0 THEN Return(<<>>)
    ELSE IF ~IsNone(self.background_pdf_path)
            /\ OpenError(self.background_pdf_path, background) # NoExc
    THEN [raised |-> TRUE, pages |-> <<>>,
          exc |-> OpenError(self.background_pdf_path, background)]
    ELSE IF ~IsNone(self.background_pdf_path) /\ Len(background.pages) = 0
    THEN Raise("ValueError", "The background file has no pages.")
    ELSE Return([j \in 1..Len(pages_to_process) |->
                    NoteMarginPage(pages_to_process[j], self.margin_proportion,
                                   ~IsNone(self.background_pdf_path),
                                   IF IsNone(self.background_pdf_path)
                                   THEN BlankPage(0, R(1), R(1))
                                   ELSE background.pages[1])])

\* The fit-inside factor of a page in one half of the landscape sheet.
HalfSheetScale(width, height, page_width, page_height) ==
    RMin(RDiv(RDiv(width, R(2)), page_width), RDiv(height, page_height))

\* A side-by-side sheet taken from the "A4" entry instead of "A4_Landscape".
SideBySidePagePortrait(page, merge_page) ==
    LET width == PAPER_SIZES["A4"][1]
        height == PAPER_SIZES["A4"][2]
        dest_page == BlankPage(page.src, width, height)
    IN  MergeTransformedPage(
            MergeTransformedPage(dest_page, page,
                                 HalfSheetScale(width, height, page.w, page.h), R(0)),
            merge_page,
            HalfSheetScale(width, height, merge_page.w, merge_page.h),
            RDiv(width, R(2)))

\* One destination page of _merge_pdf_side_by_side; merge_page is the deep
\* copy of the merge document's first page.
SideBySidePage(page, merge_page) ==
    LET width == PAPER_SIZES["A4_Landscape"][1]
        height == PAPER_SIZES["A4_Landscape"][2]
        scale == HalfSheetScale(width, height, page.w, page.h)
        scale_merge == HalfSheetScale(width, height, merge_page.w, merge_page.h)
        dest_page == BlankPage(page.src, width, height)
    IN  MergeTransformedPage(
            MergeTransformedPage(dest_page, page, scale, R(0)),
            merge_page, scale_merge, RDiv(width, R(2)))

\* A merge that hands the pages back unchanged when the merge document has
\* no page.
MergePdfSideBySideSkipsEmpty(self, pages_to_process, merge) ==
    IF Len(pages_to_process) = 0 THEN Return(<<>>)
    ELSE IF OpenError(self.merge_pdf_path, merge) # NoExc
    THEN [raised |-> TRUE, pages |-> <<>>,
          exc |-> OpenError(self.merge_pdf_path, merge)]
    ELSE IF Len(merge.pages) < 1 THEN Return(pages_to_process)
    ELSE Return([j \in 1..Len(pages_to_process) |->
                    SideBySidePage(pages_to_process[j], merge.pages[1])])

\* _merge_pdf_side_by_side; `merge` is what merge_pdf_path holds.
MergePdfSideBySide(self, pages_to_process, merge) ==
    IF Len(pages_to_process) = 0 THEN Return(<<>>)
    ELSE IF OpenError(self.merge_pdf_path, merge) # NoExc
    THEN [raised |-> TRUE, pages |-> <<>>,
          exc |-> OpenError(self.merge_pdf_path, merge)]
    ELSE IF Len(merge.pages) < 1
    THEN Raise("ValueError", "The merge PDF must contain at least one page.")
    ELSE Return([j \in 1..Len(pages_to_process) |->
                    SideBySidePage(pages_to_process[j], merge.pages[1])])

\* A resize that scales to the target width only (scale = x_scale).
ResizedPageFillsWidth(page, target_width, target_height) ==
    MergeTransformedPage(BlankPage(page.src, target_width, target_height),
                         page, RDiv(target_width, page.w), R(0))

\* One destination page of _resize_pdf.
ResizedPage(page, target_width, target_height) ==
    LET x_scale == RDiv(target_width, page.w)
        y_scale == RDiv(target_height, page.h)
        scale == RMin(x_scale, y_scale)
    IN  MergeTransformedPage(BlankPage(page.src, target_width, target_height),
                             page, scale, R(0))

\* A resize that falls back to A4 for a name the registry does not hold.
ResizePdfDefaultsToA4(self, pages_to_process) ==
    LET target_dimensions ==
            IF PaperSizesGet(self.target_size).found
            THEN PaperSizesGet(self.target_size).dims
            ELSE PAPER_SIZES["A4"]
    IN  Return([j \in 1..Len(pages_to_process) |->
                   ResizedPage(pages_to_process[j],
                               target_dimensions[1], target_dimensions[2])])

\* _resize_pdf.
ResizePdf(self, pages_to_process) ==
    LET target_dimensions == PaperSizesGet(self.target_size)
    IN  IF ~target_dimensions.found
        THEN Raise("ValueError", "Invalid target size")
        ELSE IF Len(pages_to_process) = 0 THEN Return(<<>>)
        ELSE Return([j \in 1..Len(pages_to_process) |->
                        ResizedPage(pages_to_process[j],
                                    target_dimensions.dims[1],
                                    target_dimensions.dims[2])])

\* The dispatch table of _modify_and_save.
ActionNames == {"duplicate", "add_notes", "merge_side_by_side", "resize"}

\* actions[action](pages_to_process=pages_to_process)
CallAction(self, action, pages_to_process, files) ==
    CASE action = "duplicate" -> DuplicatePages(pages_to_process)
      [] action = "add_notes" ->
            AddNoteMargin(self, pages_to_process, files.background)
      [] action = "merge_side_by_side" ->
            MergePdfSideBySide(self, pages_to_process, files.merge)
      [] action = "resize" -> ResizePdf(self, pages_to_process)

\* ----------------------------------------------- transforms on page objects
\* The memory of a direct call: the page objects by number (the pages of the
\* list passed in, then those of the background and of the merge document),
\* and the lists, which hold object numbers: the list passed in, the pages of
\* the two auxiliary readers, and the list new_pages the call builds.
Memory(pages, background_pages, merge_pages) ==
    [objs |-> pages \o background_pages \o merge_pages,
     input |-> [j \in 1..Len(pages) |-> j],
     background |-> [j \in 1..Len(background_pages) |-> Len(pages) + j],
     merge |-> [j \in 1..Len(merge_pages) |->
                    Len(pages) + Len(background_pages) + j],
     new_pages |-> <<>>]

NoMemory == Memory(<<>>, <<>>, <<>>)

\* The number of the next object created.
NewObject(m) == Len(m.objs) + 1

\* temp_writer.add_blank_page(width, height): a new page object.
AddBlankPage(m, src, w, h) == [m EXCEPT !.objs = Append(@, BlankPage(src, w, h))]

\* deepcopy(page): a new page object with the page's box and content.
DeepCopy(m, page) == [m EXCEPT !.objs = Append(@, m.objs[page])]

\* new_pages.append(page)
NewPagesAppend(m, page) == [m EXCEPT !.new_pages = Append(@, page)]

\* dest.merge_page(page): writes object dest, reads object page.
MergeOnto(m, dest, page) ==
    [m EXCEPT !.objs[dest] = MergePage(m.objs[dest], m.objs[page])]

\* A merge with receiver and argument exchanged:
\* page.merge_transformed_page(dest, ...) writes the page that was passed in.
MergeTransformedOntoArgument(m, dest, page, s, dx) ==
    [m EXCEPT !.objs[page] = MergeTransformedPage(m.objs[page], m.objs[dest], s, dx)]

\* dest.merge_transformed_page(page, Transformation().scale(s).translate(dx, 0)):
\* writes object dest, reads object page.
MergeTransformedOnto(m, dest, page, s, dx) ==
    [m EXCEPT !.objs[dest] = MergeTransformedPage(m.objs[dest], m.objs[page], s, dx)]

\* The loop of _duplicate_pages from its j-th iteration on.
RECURSIVE DuplicateLoop(_, _)
DuplicateLoop(m, j) ==
    IF j > Len(m.input) THEN m
    ELSE LET page == m.input[j]
         IN  DuplicateLoop(NewPagesAppend(NewPagesAppend(m, page), page), j + 1)

\* The loop of _add_note_margin from its j-th iteration on; background_page
\* is the first page of the background reader, or None.
RECURSIVE NoteMarginLoop(_, _, _, _)
NoteMarginLoop(m, j, margin_proportion, background_page) ==
    IF j > Len(m.input) THEN m
    ELSE LET page == m.input[j]
             page_width == m.objs[page].w
             page_height == m.objs[page].h
             ideal_width == RDiv(page_width, RSub(R(1), margin_proportion))
             ideal_height == page_height
             dest_page == NewObject(m)
             merged == MergeOnto(AddBlankPage(m, m.objs[page].src,
                                              ideal_width, ideal_height),
                                 dest_page, page)
             noted == IF IsNone(background_page) THEN merged
                      ELSE MergeTransformedOnto(
                               merged, dest_page, Val(background_page),
                               RDiv(ideal_height, m.objs[Val(background_page)].h),
                               page_width)
         IN  NoteMarginLoop(NewPagesAppend(noted, dest_page), j + 1,
                            margin_proportion, background_page)

\* The loop of _merge_pdf_side_by_side from its j-th iteration on.
RECURSIVE SideBySideLoop(_, _, _)
SideBySideLoop(m, j, original_merge_page) ==
    IF j > Len(m.input) THEN m
    ELSE LET page == m.input[j]
             width == PAPER_SIZES["A4_Landscape"][1]
             height == PAPER_SIZES["A4_Landscape"][2]
             dest_page == NewObject(m)
             merge_page == NewObject(m) + 1
             copied == DeepCopy(AddBlankPage(m, m.objs[page].src, width, height),
                                original_merge_page)
             scale == HalfSheetScale(width, height,
                                     copied.objs[page].w, copied.objs[page].h)
             scale_merge == HalfSheetScale(width, height,
                                           copied.objs[merge_page].w,
                                           copied.objs[merge_page].h)
             merged == MergeTransformedOnto(
                           MergeTransformedOnto(copied, dest_page, page, scale, R(0)),
                           dest_page, merge_page, scale_merge, RDiv(width, R(2)))
         IN  SideBySideLoop(NewPagesAppend(merged, dest_page), j + 1,
                            original_merge_page)

\* The loop of _resize_pdf from its j-th iteration on.
RECURSIVE ResizeLoop(_, _, _, _)
ResizeLoop(m, j, target_width, target_height) ==
    IF j > Len(m.input) THEN m
    ELSE LET page == m.input[j]
             x_scale == RDiv(target_width, m.objs[page].w)
             y_scale == RDiv(target_height, m.objs[page].h)
             scale == RMin(x_scale, y_scale)
             dest_page == NewObject(m)
             merged == MergeTransformedOnto(
                           AddBlankPage(m, m.objs[page].src,
                                        target_width, target_height),
                           dest_page, page, scale, R(0))
         IN  ResizeLoop(NewPagesAppend(merged, dest_page), j + 1,
                        target_width, target_height)

\* The memory after actions[action](pages_to_process) on memory m.  Every
\* check that raises comes before the loop, so a call that raises has
\* created and written no page object.
CallOn(self, action, m, files) ==
    IF CallAction(self, action, [j \in 1..Len(m.input) |-> m.objs[m.input[j]]],
                  files).raised
    THEN m
    ELSE CASE action = "duplicate" -> DuplicateLoop(m, 1)
           [] action = "add_notes" ->
                 NoteMarginLoop(m, 1, self.margin_proportion,
                                IF IsNone(self.background_pdf_path)
                                   \/ Len(m.input) = 0
                                THEN None ELSE Some(m.background[1]))
           [] action = "merge_side_by_side" ->
                 IF Len(m.input) = 0 THEN m
                 ELSE SideBySideLoop(m, 1, m.merge[1])
           [] action = "resize" ->
                 ResizeLoop(m, 1, PAPER_SIZES[self.target_size][1],
                            PAPER_SIZES[self.target_size][2])

\* ----------------------------------------------------------------- inputs
\* Names a chain may hold: the four supported ones and two unsupported ones
\* (the lookup is case-sensitive).
Alphabet == ActionNames \cup {"rotate", "Resize"}
Chains == UNION {[1..n -> Alphabet] : n \in 0..MaxChain}
Has(chain, action) == \E i \in 1..Len(chain) : chain[i] = action

Margins == {Rat(1, 2), R(1), Rat(-1, 4)}
TargetSizes == {"A5", "A7"}
StartPages == -1..MaxPages
EndPages == {None} \cup {Some(e) : e \in 1..(MaxPages + 1)}

\* The constructor's defaults (margin_proportion=0.5, target_size="A4",
\* input_start_page=0, the optional arguments None).
DefaultMargin == Rat(1, 2)
DefaultTarget == "A4"

\* The objects PDFModifier.__init__ builds.  An argument that no requested
\* action reads is left at its default: it cannot change the run.
Configs ==
    {c \in [input_pdf_path : {None, Some("sample.pdf")},
            output_pdf_path : {Some("out.pdf")},
            actions : Chains,
            background_pdf_path : {None, Some("grid_paper.pdf")},
            margin_proportion : Margins \cup {DefaultMargin},
            merge_pdf_path : {None, Some("sample2.pdf")},
            target_size : TargetSizes \cup {DefaultTarget},
            input_start_page : StartPages \cup {0},
            input_end_page : EndPages,
            append_to_existing : BOOLEAN,
            compress_output : BOOLEAN] :
        /\ Has(c.actions, "add_notes") \/
              (c.margin_proportion = DefaultMargin /\ IsNone(c.background_pdf_path))
        /\ Has(c.actions, "merge_side_by_side") \/ IsNone(c.merge_pdf_path)
        /\ IF Has(c.actions, "resize") THEN c.target_size \in TargetSizes
                                       ELSE c.target_size = DefaultTarget
        /\ ~IsNone(c.input_pdf_path) \/
              (c.input_start_page = 0 /\ IsNone(c.input_end_page))}

\* Media boxes of the documents explored: portrait A4 and a 100 x 100 square.
PageBoxes == <<(<<R(595), R(842)>>), (<<R(100), R(100)>>)>>

\* The document of n pages a path may hold: its pages take the boxes of
\* PageBoxes in turn.
Document(doc, n) ==
    [i \in 1..n |->
        LET box == PageBoxes[((i - 1) % Len(PageBoxes)) + 1]
        IN  FilePage(doc, i - 1, box[1], box[2])]

\* What the input path may hold: nothing, a file that is no PDF, or a
\* document of 0..MaxPages pages.
InputFiles ==
    {File(FALSE, FALSE, <<>>), File(TRUE, FALSE, <<>>)}
        \cup {File(TRUE, TRUE, Document("input", n)) : n \in 0..MaxPages}

\* What an auxiliary path (background, merge, existing output) may hold.
AuxFiles(doc) ==
    {File(FALSE, FALSE, <<>>), File(TRUE, FALSE, <<>>)}
        \cup {File(TRUE, TRUE, Document(doc, n)) : n \in 0..1}

\* ------------------------------------------------------------------ state
VARIABLES
    self,              \* the PDFModifier object (its attributes never change)
    entry,             \* "none", "modify_pdf" or "run_in_separate_process"
    files,             \* what the run has found at the input, background, merge and output paths
    out,               \* what the run did to the output path, and its pages
    pc,                \* where _modify_and_save is
    handles,           \* every reader and writer: "none", "open" or "closed"
    writer_pages,      \* the pages added to the output writer
    pages_to_process,  \* the local of _modify_and_save
    selected,          \* the pages the range selection handed to the chain
    k,                 \* index of the next action of the chain
    exc,               \* the exception in flight, or NoExc
    printed,           \* the messages printed so far, in order
    queue,             \* the multiprocessing.Queue q
    alive,             \* process.is_alive()
    opc,               \* where run_in_separate_process is
    report,            \* what run_in_separate_process reported
    heap               \* the page objects and lists of a direct transform call

vars == <<self, entry, files, out, pc, handles, writer_pages, pages_to_process,
          selected, k, exc, printed, queue, alive, opc, report, heap>>

Msg(text, detail) == [text |-> text, detail |-> detail]

HandleNames == {"reader", "writer", "existing_reader", "background_reader",
                "merge_reader", "compressed_reader", "compressed_writer"}

NoFiles == [input |-> UnknownFile, background |-> UnknownFile,
            merge |-> UnknownFile, output |-> UnknownFile]

Init ==
    /\ self \in Configs
    /\ entry = "none"
    /\ files = NoFiles
    /\ out = [state |-> "untouched", pages |-> <<>>]
    /\ pc = "idle"
    /\ handles = [h \in HandleNames |-> "none"]
    /\ writer_pages = <<>>
    /\ pages_to_process = <<>>
    /\ selected = <<>>
    /\ k = 0
    /\ exc = NoExc
    /\ printed = <<>>
    /\ queue = <<>>
    /\ alive = FALSE
    /\ opc = "idle"
    /\ report = Msg("none", "")
    /\ heap = NoMemory

\* Whether _modify_and_save was given a queue (`if q:`).
HasQueue == entry = "run_in_separate_process"

\* q.put(m) when a queue was given.
Put(m) == IF HasQueue THEN Append(queue, m) ELSE queue

\* _modify_and_save returns (or an exception leaves it): in a worker process
\* the process then exits.
Leave(how) ==
    /\ pc' = how
    /\ alive' = FALSE

\* ------------------------------------------------------------ entry points
\* modify_pdf(): self._modify_and_save() in the caller, without a queue.
ModifyPdf ==
    /\ pc = "idle" /\ entry = "none"
    /\ entry' = "modify_pdf"
    /\ pc' = "validate"
    /\ UNCHANGED <<heap, self, files, out, handles, writer_pages, pages_to_process,
                   selected, k, exc, printed, queue, alive, opc, report>>

\* run_in_separate_process(), to the start of its wait loop: q = Queue(),
\* process = Process(target=self._modify_and_save, args=(q,)), process.start().
\* Nothing is checked before the start.
RunInSeparateProcess ==
    /\ pc = "idle" /\ entry = "none"
    /\ entry' = "run_in_separate_process"
    /\ queue' = <<>>
    /\ alive' = TRUE
    /\ pc' = "validate"
    /\ opc' = "wait"
    /\ printed' = Append(printed, Msg("Modification process started", ""))
    /\ UNCHANGED <<heap, self, files, out, handles, writer_pages, pages_to_process,
                   selected, k, exc, report>>

\* -------------------------------------------------------- _modify_and_save
\* The last name of the chain that is not in the dispatch table, or None.
LastInvalidAction(actions) ==
    IF \E i \in 1..Len(actions) : actions[i] \notin ActionNames
    THEN Some(actions[CHOOSE i \in 1..Len(actions) :
                        /\ actions[i] \notin ActionNames
                        /\ \A j \in (i + 1)..Len(actions) : actions[j] \in ActionNames])
    ELSE None

\* The first name of the chain that is not in the dispatch table, or None.
FirstInvalidAction(actions) ==
    IF \E i \in 1..Len(actions) : actions[i] \notin ActionNames
    THEN Some(actions[CHOOSE i \in 1..Len(actions) :
                        /\ actions[i] \notin ActionNames
                        /\ \A j \in 1..(i - 1) : actions[j] \in ActionNames])
    ELSE None

\* The validation loop before the try block: the first unsupported name is
\* put on the queue and printed, and the method returns.
ValidateActions ==
    /\ pc = "validate"
    /\ LET bad == FirstInvalidAction(self.actions)
       IN  IF IsNone(bad)
           THEN /\ pc' = "open"
                /\ UNCHANGED <<queue, printed, alive>>
           ELSE /\ queue' = Put(Msg("Error: Invalid action", Val(bad)))
                /\ printed' = Append(printed, Msg("Error: Invalid action", Val(bad)))
                /\ Leave("returned")
    /\ UNCHANGED <<heap, self, entry, files, out, handles, writer_pages,
                   pages_to_process, selected, k, exc, opc, report>>

\* if self.input_pdf_path: _verify_paths, _print_pdf_info, PdfReader(...);
\* else the warning.  The file system is looked at here for the first time.
OpenInput ==
    /\ pc = "open"
    /\ IF IsNone(self.input_pdf_path)
       THEN /\ printed' = Append(printed, Msg("Warning: No input PDF provided", ""))
            /\ pc' = "range"
            /\ UNCHANGED <<files, handles, exc>>
       ELSE \E f \in InputFiles :
            /\ files' = [files EXCEPT !.input = f]
            /\ LET e == OpenError(self.input_pdf_path, f)
               IN  IF e = NoExc
                   THEN /\ handles' = [handles EXCEPT !["reader"] = "open"]
                        /\ pc' = "range"
                        /\ UNCHANGED exc
                   ELSE /\ exc' = e
                        /\ pc' = "except"
                        /\ UNCHANGED handles
            /\ UNCHANGED printed
    /\ UNCHANGED <<heap, self, entry, out, writer_pages, pages_to_process, selected,
                   k, queue, alive, opc, report>>

\* Range checks whose end test lets end = start through.
RangeErrorStrictEnd(input_start_page, input_end_page, total_pages) ==
    IF input_start_page < 0
    THEN Exc("ValueError", "'input_start_page' cannot be negative.")
    ELSE IF ~IsNone(input_end_page) /\ Val(input_end_page) < input_start_page
    THEN Exc("ValueError", "'input_end_page' must be greater than 'input_start_page'.")
    ELSE IF input_start_page >= total_pages
    THEN Exc("ValueError", "'input_start_page' is out of bounds.")
    ELSE NoExc

\* The three range checks, in the order of the code: the exception raised, or
\* NoExc.
RangeError(input_start_page, input_end_page, total_pages) ==
    IF input_start_page < 0
    THEN Exc("ValueError", "'input_start_page' cannot be negative.")
    ELSE IF ~IsNone(input_end_page) /\ Val(input_end_page) <= input_start_page
    THEN Exc("ValueError", "'input_end_page' must be greater than 'input_start_page'.")
    ELSE IF input_start_page >= total_pages
    THEN Exc("ValueError", "'input_start_page' is out of bounds.")
    ELSE NoExc

\* A selection that always runs to the last page, whatever input_end_page is.
RequestedEndIgnored(input_end_page, total_pages) == total_pages

\* end_page before the clamp: input_end_page, or total_pages for None.
RequestedEnd(input_end_page, total_pages) ==
    IF ~IsNone(input_end_page) THEN Val(input_end_page) ELSE total_pages

\* end_page after `if end_page > total_pages: end_page = total_pages`.
ClampedEnd(end_page, total_pages) ==
    IF end_page > total_pages THEN total_pages ELSE end_page

\* list(pages[start:stop]) for 0 <= start: Python's slice stops at the end of
\* the list and is empty when stop <= start.
Slice(pages, start, stop) ==
    LET hi == IF stop > Len(pages) THEN Len(pages) ELSE stop
    IN  IF hi <= start THEN <<>>
        ELSE [j \in 1..(hi - start) |-> pages[start + j]]

\* The range validation and the selection of pages_to_process, then the
\* empty-selection test: `if not pages_to_process and self.actions: return`
\* prints and returns through the finally clause, putting nothing on the queue.
SelectRange ==
    /\ pc = "range"
    /\ LET hasReader == handles["reader"] = "open"
           total_pages == Len(files.input.pages)
           e == IF hasReader
                THEN RangeError(self.input_start_page, self.input_end_page,
                                total_pages)
                ELSE NoExc
           requested == RequestedEnd(self.input_end_page, total_pages)
           end_page == ClampedEnd(requested, total_pages)
           chosen == IF hasReader
                     THEN Slice(files.input.pages, self.input_start_page, end_page)
                     ELSE <<>>
           warned == IF hasReader /\ requested > total_pages
                     THEN Append(printed,
                                 Msg("Warning: 'input_end_page' was greater than the total", ""))
                     ELSE printed
       IN  IF e # NoExc
           THEN /\ exc' = e
                /\ pc' = "except"
                /\ UNCHANGED <<pages_to_process, selected, k, printed>>
           ELSE /\ pages_to_process' = chosen
                /\ selected' = chosen
                /\ UNCHANGED exc
                /\ IF Len(chosen) = 0 /\ Len(self.actions) # 0
                   THEN /\ printed' = Append(warned,
                               Msg("Error: The specified page range is empty", ""))
                        /\ pc' = "finally"
                        /\ UNCHANGED k
                   ELSE /\ printed' = warned
                        /\ pc' = "chain"
                        /\ k' = 1
    /\ UNCHANGED <<heap, self, entry, files, out, handles, writer_pages, queue, alive,
                   opc, report>>

\* The auxiliary path a transform looks at, given what it is called with
\* ("none": it raises or returns before it looks at any path).
PathRead(action, pages) ==
    IF /\ action = "add_notes"
       /\ RLeq(R(0), self.margin_proportion) /\ RLess(self.margin_proportion, R(1))
       /\ Len(pages) # 0
       /\ ~IsNone(self.background_pdf_path)
    THEN "background"
    ELSE IF /\ action = "merge_side_by_side"
            /\ Len(pages) # 0
            /\ ~IsNone(self.merge_pdf_path)
    THEN "merge"
    ELSE "none"

\* The reader a transform opens and closes in its own finally clause.
ReaderOf(path) == IF path = "background" THEN "background_reader" ELSE "merge_reader"

\* A chain that visits the actions from the last to the first.
ActionAtFromEnd(actions, i) == actions[Len(actions) + 1 - i]

\* `for action in self.actions`: the action of the k-th iteration.
ActionAt(actions, i) == actions[i]

\* One iteration of the chain loop:
\* pages_to_process = actions[action](pages_to_process=pages_to_process).
ChainStep ==
    /\ pc = "chain"
    /\ k <= Len(self.actions)
    /\ LET action == ActionAt(self.actions, k)
           path == PathRead(action, pages_to_process)
       IN  \E f \in (IF path = "none" THEN {UnknownFile}
                     ELSE IF files[path].known THEN {files[path]}
                     ELSE AuxFiles(path)) :
            LET seen == IF path = "none" THEN files
                        ELSE [files EXCEPT ![path] = f]
                r == CallAction(self, action, pages_to_process, seen)
            IN  /\ files' = seen
                /\ handles' = IF path # "none" /\ f.exists /\ f.readable
                              THEN [handles EXCEPT ![ReaderOf(path)] = "closed"]
                              ELSE handles
                /\ IF r.raised
                   THEN /\ exc' = r.exc
                        /\ pc' = "except"
                        /\ UNCHANGED <<pages_to_process, k>>
                   ELSE /\ pages_to_process' = r.pages
                        /\ k' = k + 1
                        /\ UNCHANGED <<exc, pc>>
    /\ UNCHANGED <<heap, self, entry, out, writer_pages, selected, printed, queue,
                   alive, opc, report>>

\* A final write that never reads the existing output: the writer gets the
\* pages of pages_to_process only, whatever append_to_existing is.
BuildWriterIgnoresExisting ==
    /\ pc = "chain"
    /\ k > Len(self.actions)
    /\ IF self.append_to_existing
       THEN \E f \in AuxFiles("output") : files' = [files EXCEPT !.output = f]
       ELSE UNCHANGED files
    /\ writer_pages' = pages_to_process
    /\ handles' = [handles EXCEPT !["writer"] = "open"]
    /\ pc' = "write"
    /\ UNCHANGED <<heap, self, entry, out, pages_to_process, selected, k, exc, queue,
                   alive, opc, report, printed>>

\* writer = PdfWriter(); the pages of an existing output first when
\* append_to_existing is set and the file exists (a failure to read it is a
\* warning); then writer.add_page for every page of pages_to_process.
BuildWriter ==
    /\ pc = "chain"
    /\ k > Len(self.actions)
    /\ IF self.append_to_existing
       THEN \E f \in AuxFiles("output") :
            /\ files' = [files EXCEPT !.output = f]
            /\ IF ~f.exists
               THEN /\ writer_pages' = pages_to_process
                    /\ handles' = [handles EXCEPT !["writer"] = "open"]
                    /\ UNCHANGED printed
               ELSE IF ~f.readable
               THEN /\ writer_pages' = pages_to_process
                    /\ handles' = [handles EXCEPT !["writer"] = "open"]
                    /\ printed' = Append(printed,
                          Msg("Warning: Could not read existing PDF for appending", ""))
               ELSE /\ writer_pages' = f.pages \o pages_to_process
                    /\ handles' = [handles EXCEPT !["writer"] = "open",
                                                  !["existing_reader"] = "closed"]
                    /\ UNCHANGED printed
       ELSE /\ writer_pages' = pages_to_process
            /\ handles' = [handles EXCEPT !["writer"] = "open"]
            /\ UNCHANGED <<files, printed>>
    /\ pc' = "write"
    /\ UNCHANGED <<heap, self, entry, out, pages_to_process, selected, k, exc, queue,
                   alive, opc, report>>

\* writer.write(stream): a page as the serialized document holds it.
ToBytes(pages) ==
    [j \in 1..Len(pages) |->
        <<pages[j].src, pages[j].w, pages[j].h, pages[j].layers>>]

\* PdfReader(stream).pages.
FromBytes(bytes) ==
    [j \in 1..Len(bytes) |->
        [src |-> bytes[j][1], w |-> bytes[j][2], h |-> bytes[j][3],
         layers |-> bytes[j][4]]]

\* What can happen at `with open(output_pdf_path, "wb")` and the write in it:
\* the file is written; open() fails (a missing directory: FileNotFoundError)
\* and leaves the path alone; or the write fails after open() truncated it.
WriteOutcomes == {"written", "open_fails", "write_fails"}

\* A final write whose failure is swallowed: the run goes on to the success
\* prints and q.put("success") whatever happened to the file.
WriteOutputSwallowsFailure ==
    /\ pc = "write"
    /\ \E outcome \in WriteOutcomes :
        /\ handles' = IF self.compress_output
                      THEN [handles EXCEPT !["compressed_reader"] = "open",
                                           !["compressed_writer"] = "open"]
                      ELSE handles
        /\ printed' = Append(printed, Msg("Finalizing PDF file...", ""))
        /\ out' = CASE outcome = "written" ->
                          [state |-> "written",
                           pages |-> IF self.compress_output
                                     THEN FromBytes(ToBytes(writer_pages))
                                     ELSE writer_pages]
                     [] outcome = "open_fails" -> out
                     [] outcome = "write_fails" ->
                          [state |-> "truncated", pages |-> <<>>]
        /\ pc' = "signal"
    /\ UNCHANGED <<heap, self, entry, files, writer_pages, pages_to_process,
                   selected, k, exc, queue, alive, opc, report>>

\* The final write, with the compression round trip when compress_output is
\* set (the second reader and writer are never closed).
WriteOutput ==
    /\ pc = "write"
    /\ \E outcome \in WriteOutcomes :
        LET final == IF self.compress_output
                     THEN FromBytes(ToBytes(writer_pages))
                     ELSE writer_pages
        IN  /\ handles' = IF self.compress_output
                          THEN [handles EXCEPT !["compressed_reader"] = "open",
                                               !["compressed_writer"] = "open"]
                          ELSE handles
            /\ printed' = Append(printed, Msg("Finalizing PDF file...", ""))
            /\ CASE outcome = "written" ->
                      /\ out' = [state |-> "written", pages |-> final]
                      /\ pc' = "signal"
                      /\ UNCHANGED exc
                 [] outcome = "open_fails" ->
                      /\ exc' = Exc("FileNotFoundError", "No such file or directory")
                      /\ pc' = "except"
                      /\ UNCHANGED out
                 [] outcome = "write_fails" ->
                      /\ out' = [state |-> "truncated", pages |-> <<>>]
                      /\ exc' = Exc("Exception", "write failed")
                      /\ pc' = "except"
    /\ UNCHANGED <<heap, self, entry, files, writer_pages, pages_to_process, selected,
                   k, queue, alive, opc, report>>

\* After the write: the two prints, then `if q: q.put("success")`.
SignalSuccess ==
    /\ pc = "signal"
    /\ printed' = printed \o <<Msg("Finalization complete.", ""),
                               Msg("Success: The modified PDF was saved", "")>>
    /\ queue' = Put(Msg("success", ""))
    /\ pc' = "finally"
    /\ UNCHANGED <<heap, self, entry, files, out, handles, writer_pages,
                   pages_to_process, selected, k, exc, alive, opc, report>>

\* Except clauses with `except Exception` first: it matches every exception.
ExceptClauseCatchAllFirst(e) ==
    [caught |-> TRUE, msg |-> Msg("An unexpected error occurred", e.msg)]

\* The except clauses without the last one, `except Exception`.
ExceptClauseNoCatchAll(e) ==
    CASE e.type = "FileNotFoundError" ->
            [caught |-> TRUE, msg |-> Msg("Error: File not found.", e.msg)]
      [] e.type = "ValueError" ->
            [caught |-> TRUE, msg |-> Msg("Error: Invalid argument for action.", e.msg)]
      [] e.type = "TypeError" ->
            [caught |-> TRUE, msg |-> Msg("Error: Missing or incorrect arguments.", e.msg)]
      [] OTHER ->
            [caught |-> FALSE, msg |-> Msg("", "")]

\* The except clauses of _modify_and_save, in order: the message of the first
\* clause that matches the exception (every exception the code raises is an
\* Exception, so the last clause matches whatever the others left).
ExceptClause(e) ==
    CASE e.type = "FileNotFoundError" ->
            [caught |-> TRUE, msg |-> Msg("Error: File not found.", e.msg)]
      [] e.type = "ValueError" ->
            [caught |-> TRUE, msg |-> Msg("Error: Invalid argument for action.", e.msg)]
      [] e.type = "TypeError" ->
            [caught |-> TRUE, msg |-> Msg("Error: Missing or incorrect arguments.", e.msg)]
      [] OTHER ->
            [caught |-> TRUE, msg |-> Msg("An unexpected error occurred", e.msg)]

\* The handler that matches: `if q: q.put(message)`, then print(message).
Except ==
    /\ pc = "except"
    /\ LET h == ExceptClause(exc)
       IN  IF h.caught
           THEN /\ queue' = Put(h.msg)
                /\ printed' = Append(printed, h.msg)
                /\ exc' = NoExc
           ELSE UNCHANGED <<queue, printed, exc>>
    /\ pc' = "finally"
    /\ UNCHANGED <<heap, self, entry, files, out, handles, writer_pages,
                   pages_to_process, selected, k, alive, opc, report>>

\* reader.close() / writer.close() for those that were created.
ClosedInFinally(h) ==
    [n \in HandleNames |->
        IF n \in {"reader", "writer"} /\ h[n] = "open" THEN "closed" ELSE h[n]]

\* The finally clause, then the return (or the exception leaving the method,
\* when no clause caught it).
Finally ==
    /\ pc = "finally"
    /\ handles' = ClosedInFinally(handles)
    /\ Leave(IF exc = NoExc THEN "returned" ELSE "propagated")
    /\ UNCHANGED <<heap, self, entry, files, out, writer_pages, pages_to_process,
                   selected, k, exc, printed, queue, opc, report>>

\* The worker process dies (killed, out of memory) before _modify_and_save
\* returns: its memory is gone (what it had read included); what it printed,
\* wrote to the output path and put on the queue stays.
Crash ==
    /\ entry = "run_in_separate_process"
    /\ alive
    /\ pc \notin {"returned", "propagated", "crashed"}
    /\ pc' = "crashed"
    /\ alive' = FALSE
    /\ handles' = [h \in HandleNames |-> "none"]
    /\ writer_pages' = <<>>
    /\ pages_to_process' = <<>>
    /\ selected' = <<>>
    /\ k' = 0
    /\ exc' = NoExc
    /\ files' = NoFiles
    /\ UNCHANGED <<heap, self, entry, out, printed, queue, opc, report>>

\* ------------------------------------------------- run_in_separate_process
\* A wait loop that is left whether or not the process is alive.
WaitOverAtOnce(is_alive) == TRUE

\* `while process.is_alive(): time.sleep(1)`: whether the loop is left.
WaitOver(is_alive) == ~is_alive

\* The wait loop ends; while the process is alive the orchestrator sleeps.
Wait ==
    /\ opc = "wait"
    /\ WaitOver(alive)
    /\ opc' = "collect"
    /\ UNCHANGED <<heap, self, entry, files, out, pc, handles, writer_pages,
                   pages_to_process, selected, k, exc, printed, queue, alive,
                   report>>

\* What the orchestrator prints for the result of q.get_nowait(): queue.Empty
\* when nothing was put.
Outcome(q) ==
    IF Len(q) = 0 THEN Msg("finished, but no result was returned", "")
    ELSE IF Head(q).text = "success" THEN Msg("completed successfully", "")
    ELSE Msg("failed with error", Head(q).text)

\* A collection that waits for a message, q.get() in place of
\* q.get_nowait(): with an empty queue it never returns.
CollectBlocking ==
    /\ opc = "collect"
    /\ Len(queue) > 0
    /\ report' = Outcome(queue)
    /\ queue' = Tail(queue)
    /\ opc' = "done"
    /\ UNCHANGED <<heap, self, entry, files, out, pc, handles, writer_pages,
                   pages_to_process, selected, k, exc, printed, alive>>

\* result = q.get_nowait() and the print of the outcome.
Collect ==
    /\ opc = "collect"
    /\ report' = Outcome(queue)
    /\ queue' = IF Len(queue) = 0 THEN queue ELSE Tail(queue)
    /\ opc' = "done"
    /\ UNCHANGED <<heap, self, entry, files, out, pc, handles, writer_pages,
                   pages_to_process, selected, k, exc, printed, alive>>

Next ==
    \/ ModifyPdf
    \/ RunInSeparateProcess
    \/ ValidateActions
    \/ OpenInput
    \/ SelectRange
    \/ ChainStep
    \/ BuildWriter
    \/ WriteOutput
    \/ SignalSuccess
    \/ Except
    \/ Finally
    \/ Crash
    \/ Wait
    \/ Collect

Spec == Init /\ [][Next]_vars

\* The runs in which the calling process goes on running: its wait loop polls
\* is_alive() every second and the code after the loop does not wait for
\* anything, so a step of the orchestrator that can be taken is taken.  Nothing
\* is assumed of the worker.
LiveSpec == Spec /\ WF_vars(Wait) /\ WF_vars(Collect)

\* ------------------------------------------------------ direct transform calls
\* A second specification: one transform method called on a page list, as a
\* unit test calls it, the list and the object drawn from larger sets than
\* the runs above explore (the empty list included).
UnitMargins == Margins \cup {R(0), Rat(1, 4)}
UnitTargets == DOMAIN PAPER_SIZES \cup {"A7", "a4"}
UnitBoxes == {<<R(595), R(842)>>, <<R(100), R(100)>>, <<R(842), R(595)>>}

UnitPages == {FilePage("input", i, b[1], b[2]) : i \in 0..MaxPages, b \in UnitBoxes}

\* What an auxiliary path may hold in a direct call: nothing, a file that is
\* no PDF, a document without pages, or one page of any of the boxes.
UnitAuxFiles(doc) ==
    {File(FALSE, FALSE, <<>>), File(TRUE, FALSE, <<>>), File(TRUE, TRUE, <<>>)}
        \cup {File(TRUE, TRUE, <<FilePage(doc, 0, b[1], b[2])>>) : b \in UnitBoxes}
UnitLists == UNION {[1..n -> UnitPages] : n \in 0..MaxPages}

UnitConfigs ==
    {c \in [input_pdf_path : {Some("sample.pdf")},
            output_pdf_path : {Some("out.pdf")},
            actions : {<<a>> : a \in ActionNames},
            background_pdf_path : {None, Some("grid_paper.pdf")},
            margin_proportion : UnitMargins,
            merge_pdf_path : {None, Some("sample2.pdf")},
            target_size : UnitTargets,
            input_start_page : {0},
            input_end_page : {None},
            append_to_existing : {FALSE},
            compress_output : {FALSE}] :
        /\ c.actions[1] = "add_notes" \/
              (c.margin_proportion = DefaultMargin /\ IsNone(c.background_pdf_path))
        /\ c.actions[1] = "merge_side_by_side" \/ IsNone(c.merge_pdf_path)
        /\ c.actions[1] = "resize" \/ c.target_size = DefaultTarget}

UnitInit ==
    /\ self \in UnitConfigs
    /\ entry = "unit"
    /\ files \in {[NoFiles EXCEPT !.background = b, !.merge = m] :
                    b \in (IF IsNone(self.background_pdf_path) THEN {UnknownFile}
                           ELSE UnitAuxFiles("background")),
                    m \in (IF IsNone(self.merge_pdf_path) THEN {UnknownFile}
                           ELSE UnitAuxFiles("merge"))}
    /\ out = [state |-> "untouched", pages |-> <<>>]
    /\ pc = "call"
    /\ handles = [h \in HandleNames |-> "none"]
    /\ writer_pages = <<>>
    /\ pages_to_process = <<>>
    /\ selected \in UnitLists
    /\ k = 1
    /\ exc = NoExc
    /\ printed = <<>>
    /\ queue = <<>>
    /\ alive = FALSE
    /\ opc = "idle"
    /\ report = Msg("none", "")
    /\ heap = Memory(selected, files.background.pages, files.merge.pages)

\* new_pages = self._<action>(pages_to_process=selected)
UnitCall ==
    /\ pc = "call"
    /\ LET r == CallAction(self, ActionAt(self.actions, k), selected, files)
       IN  /\ pages_to_process' = r.pages
           /\ exc' = r.exc
    /\ heap' = CallOn(self, ActionAt(self.actions, k), heap, files)
    /\ pc' = "called"
    /\ UNCHANGED <<self, entry, files, out, handles, writer_pages, selected, k,
                   printed, queue, alive, opc, report>>

\* pypdf's PaperSize.A4, which the two older files use for the sheet.
PaperSizeA4 == <<R(595), R(842)>>

\* One destination page of modify_pdf.py's _merge_pdf_side_by_side.
ClassSideBySidePage(page, merge_page) ==
    LET width == PaperSizeA4[2]
        height == PaperSizeA4[1]
        x_scale == RDiv(RDiv(width, R(2)), page.w)
        y_scale == RDiv(height, page.h)
        scale == RMin(x_scale, y_scale)
        x_scale_merge == RDiv(RDiv(width, R(2)), merge_page.w)
        y_scale_merge == RDiv(height, merge_page.h)
        scale_merge == RMin(x_scale_merge, y_scale_merge)
        dest_page == BlankPage(page.src, width, height)
    IN  MergeTransformedPage(
            MergeTransformedPage(dest_page, page, scale, R(0)),
            merge_page, scale_merge, RDiv(width, R(2)))

\* modify_pdf.py's _merge_pdf_side_by_side, up to the pages it has added to
\* the writer when its loop ends.
ClassMergePdfSideBySide(merge_pdf_path, pages, merge) ==
    IF Len(pages) = 0 THEN Return(<<>>)
    ELSE IF OpenError(merge_pdf_path, merge) # NoExc
    THEN [raised |-> TRUE, pages |-> <<>>, exc |-> OpenError(merge_pdf_path, merge)]
    ELSE IF Len(merge.pages) < 1
    THEN Raise("ValueError", "The merge PDF must contain at least one page.")
    ELSE Return([j \in 1..Len(pages) |-> ClassSideBySidePage(pages[j], merge.pages[1])])

\* One destination page of modify-pdf.py's merge_pdf_side_by_side:
\* y_scale_merge is height / page_height, the height of the input page.
ScriptSideBySidePage(page, merge_page) ==
    LET width == PaperSizeA4[2]
        height == PaperSizeA4[1]
        x_scale == RDiv(RDiv(width, R(2)), page.w)
        y_scale == RDiv(height, page.h)
        scale == RMin(x_scale, y_scale)
        x_scale_merge == RDiv(RDiv(width, R(2)), merge_page.w)
        y_scale_merge == RDiv(height, page.h)
        scale_merge == RMin(x_scale_merge, y_scale_merge)
        dest_page == BlankPage(page.src, width, height)
    IN  MergeTransformedPage(
            MergeTransformedPage(dest_page, page, scale, R(0)),
            merge_page, scale_merge, RDiv(width, R(2)))

\* modify-pdf.py's merge_pdf_side_by_side over reader.pages, up to the pages
\* it has added to the writer when its loop ends: there is no empty-list
\* return and PdfReader itself finds the path missing.
ScriptMergePdfSideBySide(merge_pdf_path, pages, merge) ==
    IF OpenError(merge_pdf_path, merge) # NoExc
    THEN [raised |-> TRUE, pages |-> <<>>, exc |-> OpenError(merge_pdf_path, merge)]
    ELSE IF Len(merge.pages) < 1
    THEN Raise("ValueError", "The merge PDF must contain at least one page.")
    ELSE Return([j \in 1..Len(pages) |-> ScriptSideBySidePage(pages[j], merge.pages[1])])

\* modify_pdf.py: self._merge_pdf_side_by_side(pages_to_process, writer)
UnitCallClass ==
    /\ pc = "call"
    /\ self.actions[1] = "merge_side_by_side"
    /\ LET r == ClassMergePdfSideBySide(self.merge_pdf_path, selected, files.merge)
       IN  /\ pages_to_process' = r.pages
           /\ exc' = r.exc
    /\ pc' = "called_class"
    /\ UNCHANGED <<heap, self, entry, files, out, handles, writer_pages, selected, k,
                   printed, queue, alive, opc, report>>

\* modify-pdf.py: merge_pdf_side_by_side(reader, writer, ...)
UnitCallScript ==
    /\ pc = "call"
    /\ self.actions[1] = "merge_side_by_side"
    /\ LET r == ScriptMergePdfSideBySide(self.merge_pdf_path, selected, files.merge)
       IN  /\ pages_to_process' = r.pages
           /\ exc' = r.exc
    /\ pc' = "called_script"
    /\ UNCHANGED <<heap, self, entry, files, out, handles, writer_pages, selected, k,
                   printed, queue, alive, opc, report>>

UnitNext ==
    \/ UnitCall
    \/ UnitCallClass
    \/ UnitCallScript

UnitSpec == UnitInit /\ [][UnitNext]_vars

\* ================================================================= claims
\* The worker ran to the point named and was not killed.
ReaderWasOpened == handles["reader"] \in {"open", "closed"}

\* The pages this run added to the output: what was written, less the pages
\* of an existing output that were put first.
NewPages ==
    LET kept == IF self.append_to_existing /\ files.output.exists
                   /\ files.output.readable
                THEN Len(files.output.pages) ELSE 0
    IN  SubSeq(out.pages, kept + 1, Len(out.pages))

\* an(...a2(a1(P))...) for the first n actions of the chain, as a composition
\* of the transforms (a raised exception is the result of the composition).
RECURSIVE Composed(_, _)
Composed(n, P) ==
    IF n = 0 THEN Return(P)
    ELSE LET inner == Composed(n - 1, P)
         IN  IF inner.raised THEN inner
             ELSE CallAction(self, self.actions[n], inner.pages, files)

\* ---- C1

\* C1: whenever the worker has written the output, the pages it added are
\* an(...a2(a1(P))...) for the chain [a1..an] and the selected pages P: every
\* transform applied once, left to right, each on the result of the previous.
C1_ChainIsComposition ==
    (out.state = "written" /\ pc # "crashed") =>
        LET r == Composed(Len(self.actions), selected)
        IN  ~r.raised /\ NewPages = r.pages

\* C1 witness: a written output of a two-step chain whose two orders give
\* different pages.
C1_Witness ==
    /\ out.state = "written" /\ pc = "returned"
    /\ Len(self.actions) = 2 /\ Len(selected) > 0
    /\ self.actions = <<"add_notes", "resize">>
    /\ NewPages # CallAction(self, "add_notes",
                      CallAction(self, "resize", selected, files).pages, files).pages

\* ---- C2
\* The end of the range the claim names: min(end, totalPages), end being
\* totalPages when it is not supplied.
MinEnd(total) ==
    IF IsNone(self.input_end_page) THEN total
    ELSE IF Val(self.input_end_page) < total THEN Val(self.input_end_page)
    ELSE total

EndExceedsTotal ==
    ~IsNone(self.input_end_page) /\ Val(self.input_end_page) > Len(files.input.pages)

ClampWarning == Msg("Warning: 'input_end_page' was greater than the total", "")

Printed(m) == \E i \in 1..Len(printed) : printed[i] = m

\* The range validation of an opened document raised (no action has run).
RangeRejected == ReaderWasOpened /\ k = 0 /\ pc \in {"except", "finally", "returned"}
\* The range validation of an opened document passed.
RangeAccepted == ReaderWasOpened /\ k >= 1 /\ pc # "crashed"

\* C2: for an accepted range the pages handed to the chain are the source
\* pages start .. min(end, total)-1 in source order; an end beyond the total
\* does not reject the run, it is clamped and the warning is printed (and
\* only then).
C2_SelectedRange ==
    /\ RangeAccepted =>
         /\ selected = SubSeq(files.input.pages, self.input_start_page + 1,
                              MinEnd(Len(files.input.pages)))
         /\ Printed(ClampWarning) <=> EndExceedsTotal
    /\ (RangeRejected /\ EndExceedsTotal) =>
         (self.input_start_page < 0 \/ self.input_start_page >= Len(files.input.pages))

\* C2 witness: an end beyond the last page, clamped: the run went on with the
\* pages from start to the last one.
C2_Witness ==
    /\ RangeAccepted /\ EndExceedsTotal
    /\ Len(files.input.pages) = 2 /\ self.input_start_page = 1
    /\ Len(selected) = 1 /\ selected[1].src = 1
    /\ Printed(ClampWarning)

\* ---- C3
BadRange ==
    \/ self.input_start_page < 0
    \/ ~IsNone(self.input_end_page) /\ Val(self.input_end_page) <= self.input_start_page
    \/ self.input_start_page >= Len(files.input.pages)

\* C3: once the source document is open and the range was validated, the run
\* is rejected exactly when start < 0, or end is supplied and end <= start, or
\* start >= total; the rejection is the ValueError naming the range, no
\* transform has run and the output is untouched.
C3_RangeRejection ==
    (ReaderWasOpened /\ pc \notin {"range", "crashed"}) =>
        /\ (k = 0) <=> BadRange
        /\ (k = 0) =>
              /\ out.state = "untouched"
              /\ pages_to_process = <<>>
              /\ pc = "except" => exc.type = "ValueError"
              /\ pc \in {"finally", "returned"} =>
                    /\ printed[Len(printed)].text = "Error: Invalid argument for action."
                    /\ printed[Len(printed)].detail =
                          RangeError(self.input_start_page, self.input_end_page,
                                     Len(files.input.pages)).msg
                    /\ (HasQueue /\ opc # "done") => queue = <<printed[Len(printed)]>>
                    /\ opc = "done" =>
                          report = Msg("failed with error", printed[Len(printed)].text)

\* C3 witness: a rejected run for end = start on a document that has the
\* start page.
C3_Witness ==
    /\ RangeRejected /\ pc = "returned"
    /\ self.input_start_page = 1 /\ self.input_end_page = Some(1)
    /\ Len(files.input.pages) = 2
    /\ Len(self.actions) > 0

\* ---- C4
\* The message the handlers give for an exception.
FailureOf(e) ==
    Msg(CASE e.type = "FileNotFoundError" -> "Error: File not found."
          [] e.type = "ValueError" -> "Error: Invalid argument for action."
          [] e.type = "TypeError" -> "Error: Missing or incorrect arguments."
          [] OTHER -> "An unexpected error occurred",
        e.msg)

\* C4: an exception raised in the try block (opening a document, a transform,
\* the write) is handled in the worker's next step: the failure message with
\* the exception's text is printed, and put on the queue when there is one;
\* and no exception ever leaves _modify_and_save.
C4_ExceptionsContained ==
    /\ [](pc # "propagated")
    /\ [][pc = "except" =>
            \/ pc' = "crashed"
            \/ /\ pc' = "finally" /\ exc' = NoExc
               /\ exc.msg # ""
               /\ printed' = Append(printed, FailureOf(exc))
               /\ queue' = IF HasQueue THEN Append(queue, FailureOf(exc)) ELSE queue]_vars

\* C4 witness: a direct call returned after a failed write was reported as an
\* unexpected error.
C4_Witness ==
    /\ entry = "modify_pdf" /\ pc = "returned"
    /\ out.state = "truncated"
    /\ printed[Len(printed)] = Msg("An unexpected error occurred", "write failed")

\* ---- C5
\* C5: when the orchestrator has reported on a worker that ran to its end,
\* it reported "completed successfully" exactly if the worker wrote the
\* output, and every other outcome as a failure with its cause.
C5_EveryFailureSurfaced ==
    (opc = "done" /\ pc # "crashed") =>
        IF out.state = "written"
        THEN report = Msg("completed successfully", "")
        ELSE report.text = "failed with error" /\ report.detail # ""

\* ---- C6
MarginOutOfRange ==
    ~(RLeq(R(0), self.margin_proportion) /\ RLess(self.margin_proportion, R(1)))

\* The run met one of the validation failures: an invalid range, a missing
\* input or auxiliary file, a margin proportion outside [0, 1) or an unknown
\* paper size for a requested transform, an auxiliary document without pages.
ValidationFailure ==
    \/ files.input.known /\ ~files.input.exists
    \/ ReaderWasOpened /\ pc # "range" /\ BadRange
    \/ Has(self.actions, "add_notes") /\ MarginOutOfRange
    \/ Has(self.actions, "resize") /\ self.target_size \notin DOMAIN PAPER_SIZES
    \/ \E f \in {"background", "merge"} :
          /\ files[f].known
          /\ ~files[f].exists \/ (files[f].readable /\ Len(files[f].pages) = 0)

\* C6: a run that meets a validation failure never creates or writes the
\* output file, whichever step of the chain fails.
C6_NoOutputOnValidationFailure ==
    ValidationFailure => out.state = "untouched"

\* C6 witness: the second transform of a chain failed its validation after
\* the first one had produced pages, and the run ended without output.
C6_Witness ==
    /\ pc = "returned" /\ k = 2 /\ Len(self.actions) = 2
    /\ ValidationFailure
    /\ self.actions[1] = "duplicate" /\ Len(pages_to_process) = 2 * Len(selected)
    /\ Len(selected) > 0
    /\ printed[Len(printed)].text = "Error: Invalid argument for action."
    /\ out.state = "untouched"

MissingSeen ==
    \E f \in {"input", "background", "merge"} : files[f].known /\ ~files[f].exists

C9_SourceOrder ==
    (out.state = "written" /\ pc # "crashed") =>
        \A i, j \in 1..Len(NewPages) :
            i < j => NewPages[i].src <= NewPages[j].src

\* C9 witness: a written output with duplicated pages of two source pages.
C9_Witness ==
    /\ out.state = "written" /\ pc = "returned"
    /\ Has(self.actions, "duplicate")
    /\ Len(NewPages) = 4
    /\ NewPages[2].src = 0 /\ NewPages[3].src = 1

\* ---- C10
\* C10: _duplicate_pages called on any list of N pages returns, without
\* raising, 2N pages with output[2i] = output[2i+1] = input[i] (0-based) for
\* every i < N; for the empty list it returns the empty list.
C10_DuplicateDoubles ==
    (pc = "called" /\ self.actions[1] = "duplicate") =>
        /\ exc = NoExc
        /\ Len(pages_to_process) = 2 * Len(selected)
        /\ \A i \in 0..(Len(selected) - 1) :
              /\ pages_to_process[2 * i + 1] = selected[i + 1]
              /\ pages_to_process[2 * i + 2] = selected[i + 1]

\* C10 witness: duplicate was called on two different pages.
C10_Witness ==
    /\ pc = "called" /\ self.actions[1] = "duplicate"
    /\ Len(selected) = 2 /\ selected[1] # selected[2]
    /\ Len(pages_to_process) = 4

\* ---- C11
\* The transform named was called directly and returned a page list.
Returned(action) ==
    pc = "called" /\ self.actions[1] = action /\ exc = NoExc

\* s is min(a, b) of two positive factors: not above either, equal to one.
IsFitInside(s, page, target_width, target_height) ==
    /\ RLeq(RMul(s, page.w), target_width)
    /\ RLeq(RMul(s, page.h), target_height)
    /\ RMul(s, page.w) = target_width \/ RMul(s, page.h) = target_height

\* C11: _resize_pdf with a registered target size returns one page per input
\* page, in input order, each of exactly the target width and height, holding
\* the source page at the origin under one uniform factor that is the
\* smaller of targetWidth/pageWidth and targetHeight/pageHeight, so that the
\* scaled page exceeds the target in neither dimension.
C11_ResizeFitsInside ==
    (pc = "called" /\ self.actions[1] = "resize"
        /\ self.target_size \in DOMAIN PAPER_SIZES) =>
        /\ exc = NoExc
        /\ Len(pages_to_process) = Len(selected)
        /\ \A j \in 1..Len(selected) :
              LET o == pages_to_process[j]
                  i == selected[j]
              IN  /\ o.src = i.src
                  /\ o.w = PAPER_SIZES[self.target_size][1]
                  /\ o.h = PAPER_SIZES[self.target_size][2]
                  /\ Len(o.layers) = 1
                  /\ o.layers[1].doc = "input" /\ o.layers[1].page = i.src
                  /\ o.layers[1].dx = R(0)
                  /\ IsFitInside(o.layers[1].scale, i, o.w, o.h)

\* C11 witness: two pages of different boxes resized to a landscape size;
\* the first is bound by its height and is narrower than the target.
C11_Witness ==
    /\ Returned("resize") /\ self.target_size = "A5_Landscape"
    /\ Len(selected) = 2 /\ Len(pages_to_process) = 2
    /\ selected[1].w = R(842) /\ selected[2].w = R(100)
    /\ RMul(pages_to_process[1].layers[1].scale, selected[1].h) = pages_to_process[1].h
    /\ RLess(RMul(pages_to_process[1].layers[1].scale, selected[1].w),
             pages_to_process[1].w)

\* ---- C12
\* C12: _merge_pdf_side_by_side, when it returns, returns one page per input
\* page, in input order, each of width = the height of portrait A4 and
\* height = the width of portrait A4, whatever the boxes of the input page
\* and of the merge document's page.
C12_MergeSheetIsLandscapeA4 ==
    Returned("merge_side_by_side") =>
        /\ Len(pages_to_process) = Len(selected)
        /\ \A j \in 1..Len(selected) :
              /\ pages_to_process[j].src = selected[j].src
              /\ pages_to_process[j].w = BASE_PAPER_SIZES["A4"][2]
              /\ pages_to_process[j].h = BASE_PAPER_SIZES["A4"][1]

\* C12 witness: a square page and a landscape page merged with a square
\* merge page.
C12_Witness ==
    /\ Returned("merge_side_by_side")
    /\ Len(selected) = 2 /\ Len(pages_to_process) = 2
    /\ selected[1].w = R(100) /\ selected[2].w = R(842)
    /\ files.merge.pages[1].w = R(100)
    /\ pages_to_process[1].w = R(842)

\* ---- C13
\* The factor min((width / 2) / w, height / h) of a page of its own box in
\* one half of the landscape A4 sheet.
OwnScale(page) ==
    LET a == RDiv(RDiv(R(842), R(2)), page.w)
        b == RDiv(R(595), page.h)
    IN  IF RLess(b, a) THEN b ELSE a

\* C13: in each of the three implementations of merge-side-by-side, on every
\* returned page the input page is drawn under the factor computed from its
\* own width and height and the merge page under the factor computed from
\* the merge page's own width and height.
C13_ScalesIndependent ==
    (pc \in {"called", "called_class", "called_script"}
        /\ self.actions[1] = "merge_side_by_side" /\ exc = NoExc) =>
        \A j \in 1..Len(pages_to_process) :
            /\ Len(pages_to_process[j].layers) = 2
            /\ pages_to_process[j].layers[1].scale = OwnScale(selected[j])
            /\ pages_to_process[j].layers[2].scale = OwnScale(files.merge.pages[1])

\* ---- C14
\* C14: _add_note_margin with a margin proportion m in [0, 1) returns, when
\* the background document (if any) can be used, one page per input page, in
\* input order; the page for a source page of width w and height h has
\* width w / (1 - m) and height h and holds the source unscaled at the
\* origin.  With m = 0.5 and w = 100 the width is 200; with m = 0 it is w.
C14_NoteMarginWidth ==
    (pc = "called" /\ self.actions[1] = "add_notes" /\ ~MarginOutOfRange) =>
        /\ IsNone(self.background_pdf_path) => exc = NoExc
        /\ exc = NoExc =>
              /\ Len(pages_to_process) = Len(selected)
              /\ \A j \in 1..Len(selected) :
                    LET o == pages_to_process[j]
                        i == selected[j]
                    IN  /\ o.src = i.src
                        /\ o.h = i.h
                        /\ RMul(o.w, RSub(R(1), self.margin_proportion)) = i.w
                        /\ o.layers[1] = Layer("input", i.src, R(1), R(0))
                        /\ (self.margin_proportion = Rat(1, 2) /\ i.w = R(100))
                              => o.w = R(200)
                        /\ self.margin_proportion = R(0) => o.w = i.w

\* C14 witness: margin 0.5 on a page of width 100 and one of width 595.
C14_Witness ==
    /\ Returned("add_notes") /\ self.margin_proportion = Rat(1, 2)
    /\ Len(selected) = 2
    /\ selected[1].w = R(100) /\ selected[2].w = R(595)
    /\ pages_to_process[1].w = R(200) /\ pages_to_process[2].w = R(1190)

\* ---- C15
\* The chain holds add_notes and the margin proportion is outside [0, 1).
BadMarginRun == Has(self.actions, "add_notes") /\ MarginOutOfRange

InvalidMargin ==
    Msg("Error: Invalid argument for action.",
        "'margin_proportion' must be between 0 and 1.")

\* The run came to the first `action` of the chain: pages were selected and
\* every step before it returned.
ReachedFirst(action) ==
    /\ Len(selected) > 0
    /\ \E n \in 1..Len(self.actions) :
          /\ self.actions[n] = action
          /\ \A i \in 1..(n - 1) : self.actions[i] # action
          /\ ~Composed(n - 1, selected).raised

ReachedFirstAddNotes == ReachedFirst("add_notes")

\* C15: a run with add_notes in the chain and a margin proportion outside
\* [0, 1) never writes the output and never creates the in-memory temporary
\* output (the only temporary the code has); when it comes to add_notes (the
\* names of the chain are valid, pages were selected, the steps before
\* add_notes returned) it ends with the invalid-margin error, printed and, in
\* a worker, put on the queue and reported as the failure.
C15_InvalidMarginFails ==
    BadMarginRun =>
        /\ out.state = "untouched"
        /\ handles["compressed_reader"] = "none"
        /\ handles["compressed_writer"] = "none"
        /\ (pc = "returned" /\ ReachedFirstAddNotes) =>
              /\ printed[Len(printed)] = InvalidMargin
              /\ (HasQueue /\ opc # "done") => queue = <<InvalidMargin>>
              /\ opc = "done" => report = Msg("failed with error", InvalidMargin.text)

\* C15 witness: margin 1.0 met at the second step of a chain, reported by
\* the orchestrator.
C15_Witness ==
    /\ self.margin_proportion = R(1)
    /\ Len(self.actions) = 2 /\ self.actions[1] = "duplicate"
    /\ self.actions[2] = "add_notes"
    /\ pc = "returned" /\ ReachedFirstAddNotes /\ opc = "done"
    /\ report = Msg("failed with error", InvalidMargin.text)
    /\ out.state = "untouched"

\* ---- C16
\* The positions of the chain whose name is none of the four supported ones.
InvalidPositions == {i \in 1..Len(self.actions) : self.actions[i] \notin ActionNames}

InvalidActionError ==
    Msg("Error: Invalid action",
        self.actions[CHOOSE i \in InvalidPositions : \A j \in InvalidPositions : i <= j])

\* C16: when a name of the chain is not one of the four supported ones, the
\* run looks at no path, opens no document, runs no transform (not even a
\* valid one placed first) and leaves the output untouched; it ends reporting
\* the "Invalid action" error that names the first such name.
C16_InvalidActionStopsRun ==
    InvalidPositions # {} =>
        /\ pc \in {"idle", "validate", "returned", "crashed"}
        /\ files = NoFiles
        /\ \A h \in HandleNames : handles[h] = "none"
        /\ k = 0 /\ selected = <<>> /\ pages_to_process = <<>> /\ writer_pages = <<>>
        /\ exc = NoExc
        /\ out.state = "untouched"
        /\ pc = "returned" =>
              /\ printed[Len(printed)] = InvalidActionError
              /\ \A i \in 1..(Len(printed) - 1) : printed[i].text # "Error: Invalid action"
              /\ (HasQueue /\ opc # "done") => queue = <<InvalidActionError>>
              /\ opc = "done" =>
                    report = Msg("failed with error", InvalidActionError.text)

\* C16 witness: a chain of two different unsupported names, reported by the
\* orchestrator with the first one.
C16_Witness ==
    /\ self.actions = <<"Resize", "rotate">>
    /\ pc = "returned" /\ opc = "done"
    /\ printed[Len(printed)] = Msg("Error: Invalid action", "Resize")
    /\ report.text = "failed with error"

\* ---- C17
InputNotFound == Msg("Error: File not found.", NotFoundText(Val(self.input_pdf_path)))

\* C17: when the run finds that the input path does not exist, it opens no
\* document, looks at no other path, runs no transform and leaves the
\* output untouched, and it ends reporting the "File not found" error that
\* names the input path.
C17_MissingInputStopsRun ==
    (files.input.known /\ ~files.input.exists) =>
        /\ pc \in {"except", "finally", "returned"}
        /\ \A h \in HandleNames : handles[h] = "none"
        /\ \A f \in {"background", "merge", "output"} : ~files[f].known
        /\ k = 0 /\ selected = <<>> /\ pages_to_process = <<>> /\ writer_pages = <<>>
        /\ out.state = "untouched"
        /\ pc = "except" =>
              exc = Exc("FileNotFoundError", NotFoundText(Val(self.input_pdf_path)))
        /\ pc \in {"finally", "returned"} =>
              /\ printed[Len(printed)] = InputNotFound
              /\ (HasQueue /\ opc # "done") => queue = <<InputNotFound>>
              /\ opc = "done" => report = Msg("failed with error", InputNotFound.text)

\* C17 witness: a two-step chain on a missing input, run by modify_pdf.
C17_Witness ==
    /\ entry = "modify_pdf" /\ pc = "returned"
    /\ files.input.known /\ ~files.input.exists
    /\ Len(self.actions) = 2
    /\ printed[Len(printed)] =
          Msg("Error: File not found.", "Error: The file 'sample.pdf' was not found.")
    /\ out.state = "untouched"

\* ---- C18
\* The selection step ran, raised nothing, and handed no page to the chain.
SelectedNothing ==
    /\ pc \notin {"idle", "validate", "open", "range", "crashed"}
    /\ InvalidPositions = {}
    /\ ~RangeRejected
    /\ ~(files.input.known /\ OpenError(self.input_pdf_path, files.input) # NoExc)
    /\ Len(selected) = 0

EmptyRange == Msg("Error: The specified page range is empty", "")

\* C18: a run whose selection has length zero fails with the empty-range
\* error: no transform has produced pages, the output is untouched, and the
\* failure is reported as any other failure is (printed, put on the queue of
\* a worker and reported by the orchestrator as a failure).
C18_EmptySelectionFails ==
    SelectedNothing =>
        /\ pages_to_process = <<>>
        /\ out.state = "untouched"
        /\ pc = "returned" =>
              /\ printed[Len(printed)] = EmptyRange
              /\ (HasQueue /\ opc # "done") => queue = <<EmptyRange>>
              /\ opc = "done" => report = Msg("failed with error", EmptyRange.text)

\* ---- C19
\* The chain holds resize and the registry does not hold target_size.
BadTargetRun ==
    Has(self.actions, "resize") /\ self.target_size \notin DOMAIN PAPER_SIZES

UnknownSize == Msg("Error: Invalid argument for action.", "Invalid target size")

\* Names that are no key of the registry.
OtherSizeNames == {"A7", "a4", "A4_landscape", "Letter_Portrait", ""}

\* C19: a run with resize in the chain and a target size the registry does
\* not hold never writes the output, and ends with the unknown-paper-size
\* error when it comes to resize; that error is reported by no other run;
\* and resize, on the pages it is about to get, raises for a name exactly
\* when the registry does not hold it: every base name and every
\* <name>_Landscape is accepted.
C19_UnknownSizeFails ==
    /\ BadTargetRun =>
          /\ out.state = "untouched"
          /\ (pc = "returned" /\ ReachedFirst("resize")) =>
                /\ printed[Len(printed)] = UnknownSize
                /\ (HasQueue /\ opc # "done") => queue = <<UnknownSize>>
                /\ opc = "done" => report = Msg("failed with error", UnknownSize.text)
    /\ Printed(UnknownSize) => BadTargetRun
    /\ (pc = "chain" /\ k <= Len(self.actions) /\ ActionAt(self.actions, k) = "resize") =>
          /\ \A b \in BaseNames :
                /\ ~ResizePdf([self EXCEPT !.target_size = b], pages_to_process).raised
                /\ ~ResizePdf([self EXCEPT !.target_size = LandscapeName(b)],
                              pages_to_process).raised
          /\ \A name \in OtherSizeNames :
                ResizePdf([self EXCEPT !.target_size = name], pages_to_process).exc
                    = Exc("ValueError", "Invalid target size")

\* C19 witness: resize with a name the registry does not hold, met after a
\* duplicate and reported by the orchestrator.
C19_Witness ==
    /\ self.actions = <<"duplicate", "resize">> /\ self.target_size = "A7"
    /\ pc = "returned" /\ ReachedFirst("resize") /\ opc = "done"
    /\ report = Msg("failed with error", UnknownSize.text)
    /\ out.state = "untouched"

\* ---- C20
\* The run found the auxiliary document at path f readable and without pages.
ZeroPages(f) ==
    files[f].known /\ files[f].exists /\ files[f].readable /\ Len(files[f].pages) = 0

EmptyAuxText(f) ==
    IF f = "background" THEN "The background file has no pages."
    ELSE "The merge PDF must contain at least one page."

\* C20: when add_notes finds the background document it was given without
\* pages, or merge_side_by_side finds the merge document without pages, the
\* transform raises the ValueError that says so and hands no page on: the
\* run ends with that error and the output is untouched.
C20_EmptyAuxiliaryFails ==
    \A f \in {"background", "merge"} :
        ZeroPages(f) =>
            /\ pc \in {"except", "finally", "returned"}
            /\ out.state = "untouched" /\ writer_pages = <<>>
            /\ pc = "except" => exc = Exc("ValueError", EmptyAuxText(f))
            /\ pc \in {"finally", "returned"} =>
                  LET m == Msg("Error: Invalid argument for action.", EmptyAuxText(f))
                  IN  /\ printed[Len(printed)] = m
                      /\ (HasQueue /\ opc # "done") => queue = <<m>>
                      /\ opc = "done" => report = Msg("failed with error", m.text)

\* C20 witness: a merge document without pages met after add_notes had used
\* a background document with a page.
C20_Witness ==
    /\ self.actions = <<"add_notes", "merge_side_by_side">>
    /\ ZeroPages("merge") /\ Len(files.background.pages) = 1
    /\ pc = "returned"
    /\ printed[Len(printed)].detail = "The merge PDF must contain at least one page."
    /\ out.state = "untouched"

\* ---- C21
LandscapeNames == {LandscapeName(n) : n \in BaseNames}

\* (h, w) for the dimensions (w, h).
Swapped(dims) == <<dims[2], dims[1]>>

\* C21: the registry holds exactly the base names and one <name>_Landscape
\* per base name; a base entry has the dimensions of the base table and
\* <name>_Landscape has them swapped; and this is what every operation finds
\* in it, before and after any call: a resize to a registered name returns
\* pages of exactly the dimensions the claim gives for that name.
C21_RegistryShape ==
    /\ DOMAIN PAPER_SIZES = BaseNames \cup LandscapeNames
    /\ BaseNames \cap LandscapeNames = {}
    /\ \A n \in BaseNames :
          /\ PAPER_SIZES[n] = BASE_PAPER_SIZES[n]
          /\ PAPER_SIZES[LandscapeName(n)] = Swapped(BASE_PAPER_SIZES[n])
    /\ (pc = "called" /\ self.actions[1] = "resize") =>
          \A n \in BaseNames :
              /\ self.target_size = n =>
                    \A j \in 1..Len(pages_to_process) :
                        <<pages_to_process[j].w, pages_to_process[j].h>>
                            = BASE_PAPER_SIZES[n]
              /\ self.target_size = LandscapeName(n) =>
                    \A j \in 1..Len(pages_to_process) :
                        <<pages_to_process[j].h, pages_to_process[j].w>>
                            = BASE_PAPER_SIZES[n]

\* C21 witness: a resize to B5_Landscape returned a page as wide as B5 is
\* high, and wider than high.
C21_Witness ==
    /\ Returned("resize") /\ self.target_size = "B5_Landscape"
    /\ Len(pages_to_process) = 1
    /\ pages_to_process[1].w = Mm(250) /\ pages_to_process[1].h = Mm(176)
    /\ RLess(pages_to_process[1].h, pages_to_process[1].w)

\* ---- C22
\* The run found an output file that PdfReader can read.
ExistingReadable ==
    self.append_to_existing /\ files.output.exists /\ files.output.readable

AppendWarning == Msg("Warning: Could not read existing PDF for appending", "")

StreamReaders == {"compressed_reader"}

\* The run has serialised pages and reopened them: the output writer exists
\* and a reader over its bytes was created.
Materialised ==
    handles["writer"] # "none" /\ \E h \in StreamReaders : handles[h] # "none"

\* Step n + 1 of the chain is about to run on what step n returned.
BetweenSteps == pc = "chain" /\ 1 < k /\ k <= Len(self.actions)

\* C23: when a chain step after the first is about to run, the pages the
\* step before it produced have been serialised to bytes and reopened; the
\* step does not get the page objects of the previous step's writer.
C23_MaterialisedBetweenSteps ==
    BetweenSteps => Materialised

\* ---- C24
\* The memory the direct call started from.
MemoryBefore == Memory(selected, files.background.pages, files.merge.pages)

\* The pages a list of object numbers holds.
PagesOf(m, list) == [j \in 1..Len(list) |-> m.objs[list[j]]]

\* C24: after a direct call of any of the four transforms, whether it
\* returned or raised, the list passed in holds the same page objects in the
\* same order, every page object that existed before the call (the pages of
\* the source document in the list, the pages of the background and of the
\* merge document) has the box and the content it had, and the auxiliary
\* readers hold the same pages; what the call returns is a list of its own.
C24_TransformsLeaveInputAlone ==
    pc = "called" =>
        /\ heap.input = MemoryBefore.input
        /\ heap.background = MemoryBefore.background
        /\ heap.merge = MemoryBefore.merge
        /\ Len(heap.objs) >= Len(MemoryBefore.objs)
        /\ \A id \in 1..Len(MemoryBefore.objs) :
              heap.objs[id] = MemoryBefore.objs[id]
        /\ PagesOf(heap, heap.input) = selected
        /\ PagesOf(heap, heap.new_pages) = pages_to_process

\* C24 witness: add_notes returned two pages made from two input pages and a
\* background page: two page objects were created, and the three objects
\* read are as they were.
C24_Witness ==
    /\ Returned("add_notes") /\ ~IsNone(self.background_pdf_path)
    /\ Len(selected) = 2 /\ Len(files.background.pages) = 1
    /\ Len(heap.objs) = 5 /\ heap.new_pages = <<4, 5>>
    /\ Len(heap.objs[4].layers) = 2
    /\ heap.objs[3] = files.background.pages[1]

\* ---- C25
\* _modify_and_save, called with a queue, has ended (it returned, or an
\* exception left it) and the orchestrator has not yet taken its message.
WorkerEnded ==
    /\ HasQueue /\ pc \in {"returned", "propagated"}
    /\ opc \in {"wait", "collect"}

\* C25: when the worker has ended, on whatever path, the queue holds exactly
\* one message: never none, never two.
C25_ExactlyOneMessage ==
    WorkerEnded => Len(queue) = 1

\* ---- C26
SuccessLine == Msg("Success: The modified PDF was saved", "")

\* The run has said that it succeeded: the printed line, the queue message,
\* or the orchestrator's report of that message.
SuccessEmitted ==
    \/ Printed(SuccessLine)
    \/ \E i \in 1..Len(queue) : queue[i] = Msg("success", "")
    \/ report = Msg("completed successfully", "")

\* What open() and the write raise in the model.
OutputFailures ==
    {Exc("FileNotFoundError", "No such file or directory"),
     Exc("Exception", "write failed")}

\* The run came to the final write and it failed: the output writer was
\* created, the write step is over and the file was not written.
WriteFailed ==
    /\ handles["writer"] # "none"
    /\ pc \in {"except", "finally", "returned"}
    /\ out.state # "written"

\* C26: whenever the run has said it succeeded the output file is written,
\* and it says so only in a step that starts with the file already written;
\* when opening or writing the output file failed, success is never said:
\* the failure message of the exception is printed, and is what a worker
\* puts on the queue and the orchestrator reports.
C26_SuccessAfterWrite ==
    /\ [](SuccessEmitted => out.state = "written")
    /\ [][(SuccessEmitted' /\ ~SuccessEmitted) => out.state = "written"]_vars
    /\ [](WriteFailed =>
            /\ ~SuccessEmitted
            /\ pc = "except" => exc \in OutputFailures
            /\ pc \in {"finally", "returned"} =>
                  /\ \E e \in OutputFailures : printed[Len(printed)] = FailureOf(e)
                  /\ (HasQueue /\ opc # "done") => queue = <<printed[Len(printed)]>>
                  /\ opc = "done" =>
                        report = Msg("failed with error", printed[Len(printed)].text))

\* C26 witness: open() of the output path failed in a worker and the
\* orchestrator reported the failure; nothing was written.
C26_Witness ==
    /\ WriteFailed /\ opc = "done" /\ out.state = "untouched"
    /\ Printed(FailureOf(Exc("FileNotFoundError", "No such file or directory")))
    /\ report = Msg("failed with error", "Error: File not found.")
    /\ ~SuccessEmitted

\* ---- C27
\* The run ended without saying that it succeeded.
RunFailed == pc = "returned" /\ ~Printed(SuccessLine)

\* C27: when a run has failed, at whatever point, the output path holds what
\* it held before the run (the run has neither written nor truncated it),
\* with and without append_to_existing.
C27_FailureKeepsOutput ==
    RunFailed => out.state = "untouched"

\* ---- C28
\* C28: a run that has written the output file or said that it succeeded
\* selected at least one source page, whatever the chain (the empty one
\* included) and with or without an input path.
C28_NoSuccessWithoutPages ==
    (pc # "crashed" /\ (out.state = "written" \/ SuccessEmitted)) =>
        Len(selected) >= 1

\* ---- C29
\* C29: when the run has returned, on whatever path, no reader and no writer
\* it created is still open: the source reader, the background and merge
\* readers, the reader of the existing output, the output writer and the
\* reader and writer of the compression step have all been closed.
C29_EverythingClosed ==
    pc \in {"returned", "propagated"} =>
        \A h \in HandleNames : handles[h] # "open"

\* ---- C30
\* The three outcomes run_in_separate_process prints.
OutcomeTexts ==
    {"completed successfully", "failed with error",
     "finished, but no result was returned"}

\* The worker process was started and is no longer alive.
WorkerExited == entry = "run_in_separate_process" /\ ~alive

\* C30: once the worker process has exited (it returned, or it crashed
\* having put nothing), run_in_separate_process goes on to report an outcome
\* and return.  It does not wait on the queue: the collection can be done
\* whatever the queue holds.  It reports exactly one outcome, one of the
\* three, decided by the first message of the queue (success, the worker's
\* message, or no message), and none before or after.
C30_OrchestratorReturns ==
    /\ WorkerExited ~> (opc = "done")
    /\ [](opc = "collect" => ENABLED Collect)
    /\ [](IF opc = "done" THEN report.text \in OutcomeTexts
                          ELSE report = Msg("none", ""))
    /\ [][opc = "done" => (opc' = "done" /\ report' = report)]_vars
    /\ [][(opc = "collect" /\ opc' = "done") =>
            report' = (IF Len(queue) = 0
                       THEN Msg("finished, but no result was returned", "")
                       ELSE IF Head(queue) = Msg("success", "")
                       THEN Msg("completed successfully", "")
                       ELSE Msg("failed with error", Head(queue).text))]_vars

\* C30 witness: the worker was killed before it put anything, and the
\* orchestrator returned after reporting that no result was returned.
C30_Witness ==
    /\ pc = "crashed" /\ opc = "done" /\ queue = <<>>
    /\ report = Msg("finished, but no result was returned", "")

====
